---- MODULE Spec2Model ----
(***************************************************************************)
(* The user-retirement workflow of openedx/core/djangoapps/user_api/       *)
(* models.py: the RetirementState registry table, the UserRetirementStatus *)
(* table, and the operations create_retirement, update_state and the       *)
(* deletion of a RetirementState (guarded by its pre_delete receiver).     *)
(***************************************************************************)
EXTENDS Integers, Sequences, FiniteSets, TLC

(***************************************************************************)
(* Bounds of the model.                                                    *)
(***************************************************************************)
NumUsers == 2

Users == 1..NumUsers

\* The state names the registry may be seeded with, and the step each one
\* is seeded at (the registry of the retirement pipeline, in pipeline order).
SeedNames == <<"PENDING", "LOCATING", "CONFIRMING", "ERRORED">>

StateNames == {SeedNames[i] : i \in DOMAIN SeedNames}

SeedOrder(name) == (CHOOSE i \in DOMAIN SeedNames : SeedNames[i] = name) - 1

\* A state name no registry holds, and the response texts callers send.
UnknownStateName == "BOGUS"

Responses == {"ok"}

(***************************************************************************)
(* The outcomes of a call: success, or the raise statement that ended it.  *)
(***************************************************************************)
OK == "OK"

TerminalStateError == "RetirementStatus: Unable to move user from {}"

InvalidTransitionError == "{} does not exist or is an eariler state than current state {}"

MissingKeyError == "RetirementStatus: Required key {} missing from update"

UnknownKeyError == "RetirementStatus: Unknown key {} in update"

MalformedRequestError == {MissingKeyError, UnknownKeyError}

EmptyRegistryError == "Default state does not exist! Populate retirement states to retire users."

DuplicateRetirementError == "User {} already has a retirement row!"

IntegrityError == "IntegrityError: UNIQUE constraint failed: user_id"

ProtectedStateError == "Required RetirementStates cannot be deleted."

(***************************************************************************)
(* class RetirementState: a row of the registry table.                     *)
(***************************************************************************)
RetirementStateRow(name, order, dead, req) ==
    [state_name |-> name, state_execution_order |-> order,
     is_dead_end_state |-> dead, required |-> req]

\* The registries the table can hold at start: any subset of the seed
\* registry PENDING(0), LOCATING(1), CONFIRMING(2, dead end), ERRORED(3),
\* of which the first and the last state are required.  state_name and
\* state_execution_order are unique by construction.
SeedDeadEnd == {"CONFIRMING"}

SeedRequired == {"PENDING", "ERRORED"}

SeedRow(n) == RetirementStateRow(n, SeedOrder(n), n \in SeedDeadEnd, n \in SeedRequired)

Registries == { {SeedRow(n) : n \in S} : S \in SUBSET StateNames }

VARIABLES RetirementState, UserRetirementStatus, result

\* What each concurrent caller holds between two of its steps: the instance
\* it read with objects.get, or the locals of a create_retirement under way.
VARIABLES callers

\* The run of the simulate_publish command: its options, the receivers
\* connected to SignalHandler.course_published, the position of handle(),
\* its local course_keys and the signals sent so far.
VARIABLES options, receivers, pc, course_keys, sent

retirementVars == <<RetirementState, UserRetirementStatus, result>>

publishVars == <<options, receivers, pc, course_keys, sent>>

vars == <<RetirementState, UserRetirementStatus, result, callers,
          options, receivers, pc, course_keys, sent>>

(***************************************************************************)
(* Python values as the comparison of line 203 sees them: a unicode string *)
(* or a model instance.  Model.__eq__ answers False for anything that is   *)
(* not an instance of the same model with the same primary key; a registry *)
(* row's primary key is stood for by its (unique) state_name.              *)
(***************************************************************************)
Unicode(s) == [type |-> "unicode", value |-> s]

Instance(state_name) == [type |-> "RetirementState", value |-> state_name]

PyEq(a, b) == a.type = b.type /\ a.value = b.value

\* x in list
PyIn(x, list) == \E i \in DOMAIN list : PyEq(x, list[i])

\* RetirementState.__unicode__
unicode(state) == <<"{} (step {})", state.state_name, state.state_execution_order>>

(***************************************************************************)
(* Queries on the registry.  Meta.ordering sorts every queryset of         *)
(* RetirementState by state_execution_order.                               *)
(***************************************************************************)
RECURSIVE order_by(_)
order_by(rows) ==
    IF rows = {} THEN <<>>
    ELSE LET first == CHOOSE r \in rows :
                        \A q \in rows : r.state_execution_order <= q.state_execution_order
         IN <<first>> \o order_by(rows \ {first})

values_list(rows) == [i \in DOMAIN rows |-> rows[i].state_name]

get_dead_end_state_names_list(table) ==
    values_list(order_by({r \in table : r.is_dead_end_state}))

get_state_names_list(table) == values_list(order_by(table))

\* RetirementState.objects.get(state_name=name)
get(table, name) == CHOOSE r \in table : r.state_name = name

\* list.index(x), 0-based; the caller handles the ValueError of a missing x
Has(list, x) == \E i \in DOMAIN list : list[i] = x

index(list, x) == (CHOOSE i \in DOMAIN list : list[i] = x) - 1

(***************************************************************************)
(* Users, and the rows of UserRetirementStatus.  A row refers to its user  *)
(* and to its two registry rows by key.                                    *)
(***************************************************************************)
username(u) == <<"username", u>>

email(u) == <<"email", u>>

profile_name(u) == <<"name", u>>

get_retired_username_by_username(name) == <<"retired", name>>

get_retired_email_by_email(mail) == <<"retired", mail>>

CreatedLine(pending) == <<"Created in state {} by create_retirement", unicode(pending)>>

MovedLine(old_state, new_state, response) ==
    <<"\n Moved from {} to {}:\n{}\n", unicode(old_state), unicode(new_state), response>>

(***************************************************************************)
(* Variants of _validate_state_update with a slip in the ordering check:   *)
(* "<" for "<=", and no ordering check at all.                             *)
(***************************************************************************)
_validate_state_update_allow_same(table, self, new_state) ==
    LET dead_end_states == [i \in DOMAIN get_dead_end_state_names_list(table) |->
                               Unicode(get_dead_end_state_names_list(table)[i])]
        states == get_state_names_list(table)
    IN  IF PyIn(Instance(self.current_state), dead_end_states)
        THEN TerminalStateError
        ELSE IF ~Has(states, new_state) \/ ~Has(states, self.current_state)
        THEN InvalidTransitionError
        ELSE IF index(states, new_state) < index(states, self.current_state)
        THEN InvalidTransitionError
        ELSE OK

\* Variant that refuses only the state the record is in.
_validate_state_update_any_other(table, self, new_state) ==
    LET dead_end_states == [i \in DOMAIN get_dead_end_state_names_list(table) |->
                               Unicode(get_dead_end_state_names_list(table)[i])]
        states == get_state_names_list(table)
    IN  IF PyIn(Instance(self.current_state), dead_end_states)
        THEN TerminalStateError
        ELSE IF ~Has(states, new_state) \/ ~Has(states, self.current_state)
        THEN InvalidTransitionError
        ELSE IF index(states, new_state) = index(states, self.current_state)
        THEN InvalidTransitionError
        ELSE OK

_validate_state_update_no_order(table, self, new_state) ==
    LET dead_end_states == [i \in DOMAIN get_dead_end_state_names_list(table) |->
                               Unicode(get_dead_end_state_names_list(table)[i])]
        states == get_state_names_list(table)
    IN  IF PyIn(Instance(self.current_state), dead_end_states)
        THEN TerminalStateError
        ELSE IF ~Has(states, new_state) \/ ~Has(states, self.current_state)
        THEN InvalidTransitionError
        ELSE OK

(***************************************************************************)
(* UserRetirementStatus._validate_state_update                             *)
(***************************************************************************)
_validate_state_update(table, self, new_state) ==
    LET dead_end_states == [i \in DOMAIN get_dead_end_state_names_list(table) |->
                               Unicode(get_dead_end_state_names_list(table)[i])]
        states == get_state_names_list(table)
    IN  IF PyIn(Instance(self.current_state), dead_end_states)
        THEN TerminalStateError
        ELSE IF ~Has(states, new_state) \/ ~Has(states, self.current_state)
        THEN InvalidTransitionError
        ELSE IF index(states, new_state) <= index(states, self.current_state)
        THEN InvalidTransitionError
        ELSE OK

(***************************************************************************)
(* UserRetirementStatus._validate_update_data                              *)
(***************************************************************************)
required_keys == <<"username", "new_state", "response">>

\* A variant without the second loop: extra keys pass.
_validate_update_data_no_unknown(data) ==
    IF \E i \in DOMAIN required_keys : required_keys[i] \notin DOMAIN data
    THEN MissingKeyError
    ELSE OK

_validate_update_data(data) ==
    IF \E i \in DOMAIN required_keys : required_keys[i] \notin DOMAIN data
    THEN MissingKeyError
    ELSE IF \E key \in DOMAIN data : ~Has(required_keys, key)
    THEN UnknownKeyError
    ELSE OK

(***************************************************************************)
(* Variants of update_state: one that logs and saves before the state      *)
(* check, one that assigns last_state after current_state was overwritten. *)
(***************************************************************************)
update_state_log_first(table, self, update) ==
    IF _validate_update_data(update) # OK
    THEN [err |-> _validate_update_data(update), self |-> self, saved |-> FALSE]
    ELSE LET logged == [self EXCEPT !.responses = Append(@, <<update["response"]>>)]
         IN IF _validate_state_update(table, self, update["new_state"]) # OK
            THEN [err |-> _validate_state_update(table, self, update["new_state"]),
                  self |-> logged, saved |-> TRUE]
            ELSE [err |-> OK,
                  self |-> [logged EXCEPT !.current_state = update["new_state"],
                                          !.last_state = self.current_state],
                  saved |-> TRUE]

update_state_last_after(table, self, update) ==
    IF _validate_update_data(update) # OK
    THEN [err |-> _validate_update_data(update), self |-> self, saved |-> FALSE]
    ELSE IF _validate_state_update(table, self, update["new_state"]) # OK
    THEN [err |-> _validate_state_update(table, self, update["new_state"]),
          self |-> self, saved |-> FALSE]
    ELSE [err |-> OK,
          self |-> [self EXCEPT
             !.current_state = update["new_state"],
             !.last_state = update["new_state"],
             !.responses = Append(@, MovedLine(get(table, self.current_state),
                                                get(table, update["new_state"]),
                                                update["response"]))],
          saved |-> TRUE]

\* Variant that also rewrites the username snapshot.
update_state_rewrite_snapshot(table, self, update) ==
    IF _validate_update_data(update) # OK
    THEN [err |-> _validate_update_data(update), self |-> self, saved |-> FALSE]
    ELSE IF _validate_state_update(table, self, update["new_state"]) # OK
    THEN [err |-> _validate_state_update(table, self, update["new_state"]),
          self |-> self, saved |-> FALSE]
    ELSE [err |-> OK,
          self |-> [self EXCEPT
             !.original_username = self.original_email,
             !.current_state = update["new_state"],
             !.last_state = self.current_state,
             !.responses = Append(@, MovedLine(get(table, self.current_state),
                                                get(table, update["new_state"]),
                                                update["response"]))],
          saved |-> TRUE]

\* Variant that replaces the response log by the new entry.
update_state_overwrite_log(table, self, update) ==
    IF _validate_update_data(update) # OK
    THEN [err |-> _validate_update_data(update), self |-> self, saved |-> FALSE]
    ELSE IF _validate_state_update(table, self, update["new_state"]) # OK
    THEN [err |-> _validate_state_update(table, self, update["new_state"]),
          self |-> self, saved |-> FALSE]
    ELSE [err |-> OK,
          self |-> [self EXCEPT
             !.current_state = update["new_state"],
             !.last_state = self.current_state,
             !.responses = <<MovedLine(get(table, self.current_state),
                                       get(table, update["new_state"]),
                                       update["response"])>>],
          saved |-> TRUE]

(***************************************************************************)
(* UserRetirementStatus.update_state: the outcome and the instance after   *)
(* the call; saved tells whether self.save() was reached.                  *)
(***************************************************************************)
update_state(table, self, update) ==
    LET failed(e) == [err |-> e, self |-> self, saved |-> FALSE]
    IN  IF _validate_update_data(update) # OK
        THEN failed(_validate_update_data(update))
        ELSE IF _validate_state_update(table, self, update["new_state"]) # OK
        THEN failed(_validate_state_update(table, self, update["new_state"]))
        ELSE LET old_state == self.current_state
                 current_state == get(table, update["new_state"])
             IN [err |-> OK,
                 self |-> [self EXCEPT
                    !.current_state = current_state.state_name,
                    !.last_state = old_state,
                    !.responses = Append(@, MovedLine(get(table, old_state),
                                                       current_state,
                                                       update["response"]))],
                 saved |-> TRUE]

\* Model.save() of an existing row: the row of the same user is replaced.
\* A save that keeps nothing but the saved row.
save_only(records, self) == {self}

save(records, self) == {r \in records : r.user # self.user} \cup {self}

(***************************************************************************)
(* UserRetirementStatus.create_retirement: the outcome and the table       *)
(* after the call.  objects.create enforces the one-to-one user link.      *)
(***************************************************************************)
\* A table without the unique constraint on user.
create_no_unique(records, row) ==
    [err |-> OK, records |-> records \cup {row}]

create(records, row) ==
    IF \E r \in records : r.user = row.user
    THEN [err |-> IntegrityError, records |-> records]
    ELSE [err |-> OK, records |-> records \cup {row}]

NewRow(user, pending) ==
    [user |-> user,
     original_username |-> username(user),
     original_email |-> email(user),
     original_name |-> profile_name(user),
     retired_username |-> get_retired_username_by_username(username(user)),
     retired_email |-> get_retired_email_by_email(email(user)),
     current_state |-> pending.state_name,
     last_state |-> pending.state_name,
     responses |-> <<CreatedLine(pending)>>]

\* Variants of create_retirement: one without the exists() check, one that
\* takes the last state of the ordering as the initial one.
create_retirement_no_exists_check(table, records, user) ==
    IF order_by(table) = <<>>
    THEN [err |-> EmptyRegistryError, records |-> records]
    ELSE create(records, NewRow(user, order_by(table)[1]))

create_retirement_from_last(table, records, user) ==
    IF order_by(table) = <<>>
    THEN [err |-> EmptyRegistryError, records |-> records]
    ELSE IF \E r \in records : r.user = user
    THEN [err |-> DuplicateRetirementError, records |-> records]
    ELSE create(records, NewRow(user, order_by(table)[Len(order_by(table))]))

create_retirement(table, records, user) ==
    IF order_by(table) = <<>>
    THEN [err |-> EmptyRegistryError, records |-> records]
    ELSE LET pending == order_by(table)[1]
         IN IF \E r \in records : r.user = user
            THEN [err |-> DuplicateRetirementError, records |-> records]
            ELSE create(records, NewRow(user, pending))

(***************************************************************************)
(* Deleting a registry row: the pre_delete receiver runs first; a row that *)
(* passes it is deleted together with the UserRetirementStatus rows whose  *)
(* current_state or last_state refers to it (ForeignKey cascades).         *)
(***************************************************************************)
\* A receiver that never raises.
retirementstate_pre_delete_callback_silent(state) == OK

retirementstate_pre_delete_callback(state) ==
    IF state.required THEN ProtectedStateError ELSE OK

\* A cascade that follows only the last_state link.
cascade_last_only(records, state) ==
    {r \in records : r.last_state # state.state_name}

cascade(records, state) ==
    {r \in records : r.current_state # state.state_name /\ r.last_state # state.state_name}

delete(table, records, state) ==
    IF retirementstate_pre_delete_callback(state) # OK
    THEN [err |-> retirementstate_pre_delete_callback(state),
          table |-> table, records |-> records]
    ELSE [err |-> OK, table |-> table \ {state}, records |-> cascade(records, state)]

(***************************************************************************)
(* The requests callers send to update_state: dicts over any set of keys.  *)
(***************************************************************************)
Keys == {"username", "new_state", "response", "force"}

ValuesOf(key) ==
    CASE key = "username" -> {"user"}
      [] key = "new_state" -> StateNames \cup {UnknownStateName}
      [] key = "response" -> Responses
      [] OTHER -> {"true"}

Requests ==
    UNION { {d \in [K -> UNION {ValuesOf(k) : k \in Keys}] :
                \A k \in K : d[k] \in ValuesOf(k)}
            : K \in SUBSET Keys }

\* The row of a user (the instance a caller holds after objects.get).
Row(records, u) == CHOOSE r \in records : r.user = u

HasRow(u) == \E r \in UserRetirementStatus : r.user = u

RowOf(u) == Row(UserRetirementStatus, u)

(***************************************************************************)
(* The state machine.                                                      *)
(***************************************************************************)
\* The two callers of the concurrency claims; a caller between requests.
Callers == {"caller_a", "caller_b"}

Idle == [pc |-> "idle"]

\* No simulate_publish command is running.
NoCommand ==
    /\ options = <<>>
    /\ receivers = {}
    /\ pc = "none"
    /\ course_keys = <<>>
    /\ sent = <<>>

Init ==
    /\ RetirementState \in Registries
    /\ UserRetirementStatus = {}
    /\ result = [op |-> "none", err |-> OK]
    /\ callers = [c \in Callers |-> Idle]
    /\ NoCommand

CreateRetirement(u) ==
    LET out == create_retirement(RetirementState, UserRetirementStatus, u)
    IN  /\ UserRetirementStatus' = out.records
        /\ result' = [op |-> "create_retirement", err |-> out.err]
        /\ UNCHANGED <<RetirementState, callers, publishVars>>

\* What a caller's update_state on the row of user u does to the table.
UpdateStateOutcome(u, update) ==
    LET out == update_state(RetirementState, RowOf(u), update)
    IN  [err |-> out.err,
         records |-> IF out.saved THEN save(UserRetirementStatus, out.self)
                     ELSE UserRetirementStatus]

UpdateState(u, update) ==
    /\ HasRow(u)
    /\ UserRetirementStatus' = UpdateStateOutcome(u, update).records
    /\ result' = [op |-> "update_state", err |-> UpdateStateOutcome(u, update).err]
    /\ UNCHANGED <<RetirementState, callers, publishVars>>

DeleteState(state) ==
    LET out == delete(RetirementState, UserRetirementStatus, state)
    IN  /\ RetirementState' = out.table
        /\ UserRetirementStatus' = out.records
        /\ result' = [op |-> "delete", err |-> out.err,
                      cascaded |-> Cardinality(UserRetirementStatus \ out.records),
                      occupants |-> Cardinality({r \in UserRetirementStatus :
                                        r.current_state = state.state_name})]
        /\ UNCHANGED <<callers, publishVars>>

Next ==
    \/ \E u \in Users : CreateRetirement(u)
    \/ \E u \in Users, update \in Requests : UpdateState(u, update)
    \/ \E state \in RetirementState : DeleteState(state)

Spec == Init /\ [][Next]_vars

(***************************************************************************)
(* Concurrent callers of update_state.  update_state is a method of an     *)
(* instance: a caller first reads the row into an instance of its own,     *)
(* then validates against that instance and saves it.  Nothing in the      *)
(* method locks or re-reads the row; save() writes every field.            *)
(***************************************************************************)
Get(c, u) ==
    /\ callers[c] = Idle
    /\ HasRow(u)
    /\ callers' = [callers EXCEPT ![c] = [pc |-> "holding", self |-> RowOf(u)]]
    /\ UNCHANGED <<retirementVars, publishVars>>

UpdateHeld(c, update) ==
    /\ callers[c].pc = "holding"
    /\ LET out == update_state(RetirementState, callers[c].self, update)
       IN  /\ UserRetirementStatus' =
                 IF out.saved THEN save(UserRetirementStatus, out.self)
                 ELSE UserRetirementStatus
           /\ result' = [op |-> "update_state", err |-> out.err]
    /\ callers' = [callers EXCEPT ![c] = Idle]
    /\ UNCHANGED <<RetirementState, publishVars>>

NextUpdates ==
    \/ \E u \in Users : CreateRetirement(u)
    \/ \E c \in Callers, u \in Users : Get(c, u)
    \/ \E c \in Callers, update \in Requests : UpdateHeld(c, update)

SpecUpdates == Init /\ [][NextUpdates]_vars

(***************************************************************************)
(* The record operations on a registry that stays as it was set up: no     *)
(* state is deleted.                                                       *)
(***************************************************************************)
NextFixed ==
    \/ \E u \in Users : CreateRetirement(u)
    \/ \E u \in Users, update \in Requests : UpdateState(u, update)

SpecFixed == Init /\ [][NextFixed]_vars

(***************************************************************************)
(* Concurrent callers of create_retirement.  The method first reads the    *)
(* initial state and tests exists() (lines 234-243), then inserts the row  *)
(* (lines 245-255); another caller can run between the two.                *)
(***************************************************************************)
BeginCreate(c, u) ==
    /\ callers[c] = Idle
    /\ IF order_by(RetirementState) = <<>>
       THEN /\ result' = [op |-> "create_retirement", err |-> EmptyRegistryError]
            /\ UNCHANGED callers
       ELSE IF HasRow(u)
       THEN /\ result' = [op |-> "create_retirement", err |-> DuplicateRetirementError]
            /\ UNCHANGED callers
       ELSE /\ callers' = [callers EXCEPT ![c] =
                   [pc |-> "creating", user |-> u,
                    pending |-> order_by(RetirementState)[1]]]
            /\ UNCHANGED result
    /\ UNCHANGED <<RetirementState, UserRetirementStatus, publishVars>>

FinishCreate(c) ==
    /\ callers[c].pc = "creating"
    /\ LET out == create(UserRetirementStatus,
                         NewRow(callers[c].user, callers[c].pending))
       IN  /\ UserRetirementStatus' = out.records
           /\ result' = [op |-> "create_retirement", err |-> out.err]
    /\ callers' = [callers EXCEPT ![c] = Idle]
    /\ UNCHANGED <<RetirementState, publishVars>>

NextCreates ==
    \/ \E c \in Callers, u \in Users : BeginCreate(c, u)
    \/ \E c \in Callers : FinishCreate(c)
    \/ \E u \in Users, update \in Requests : UpdateState(u, update)

SpecCreates == Init /\ [][NextCreates]_vars

(***************************************************************************)
(* simulate_publish: one run of Command.handle.                            *)
(*   options      the parsed command line                                  *)
(*   receivers    SignalHandler.course_published.receivers                 *)
(*   pc           the position of handle                                   *)
(*   course_keys  the local list of handle                                 *)
(*   sent         the send_robust calls made so far, each with the         *)
(*                receivers connected when it was made                     *)
(***************************************************************************)
MaxArgs == 2

\* Receiver functions connected to course_published when the command starts.
ReceiverFns ==
    {[module |-> "course_overviews.signals", name |-> "_listen_for_course_publish"],
     [module |-> "course_blocks.signals", name |-> "_listen_for_course_publish"],
     [module |-> "course_blocks.signals", name |-> "trigger_update"]}

name_from_fn(fn) == fn.module \o "." \o fn.name

get_receiver_names(connected) == {name_from_fn(fn) : fn \in connected}

get_receiver_fns(connected) == connected

UnknownReceiverName == "no.such.receiver"

ReceiverArgs == get_receiver_names(ReceiverFns) \cup {UnknownReceiverName}

\* Course ids as typed on the command line, and CourseKey.from_string.
InvalidKeyError == "InvalidKeyError"

CourseArgs == {"course-v1:edX+DemoX+T1", "edX/CS101/T2", "DemoX"}

from_string(course_id) ==
    CASE course_id = "course-v1:edX+DemoX+T1" ->
            [err |-> OK,
             key |-> [org |-> "edX", course |-> "DemoX", run |-> "T1",
                      deprecated |-> FALSE]]
      [] course_id = "edX/CS101/T2" ->
            [err |-> OK,
             key |-> [org |-> "edX", course |-> "CS101", run |-> "T2",
                      deprecated |-> TRUE]]
      [] OTHER -> [err |-> InvalidKeyError]

\* [course.id for course in modulestore().get_course_summaries()]
ModulestoreCourses ==
    <<[org |-> "edX", course |-> "DemoX", run |-> "T1", deprecated |-> FALSE],
      [org |-> "edX", course |-> "CS101", run |-> "T2", deprecated |-> TRUE]>>

\* An option that was not given: None, which is false like the empty list.
None == <<>>

ArgLists(S) == UNION {[1..n -> S] : n \in 1..MaxArgs}

Options ==
    [show_receivers : BOOLEAN,
     dry_run : BOOLEAN,
     receivers : {None} \cup ArgLists(ReceiverArgs),
     courses : {None} \cup ArgLists(CourseArgs),
     delay : {0, 1}]

Range(list) == {list[i] : i \in DOMAIN list}

\* A loop that disconnects the named receivers instead of the others.
disconnect_others_inverted(connected, receiver_names_set) ==
    connected \ {fn \in get_receiver_fns(connected) :
                    name_from_fn(fn) \in receiver_names_set}

\* Lines 114-118: the receivers left connected after the loop that
\* disconnects every receiver whose name was not given.
disconnect_others(connected, receiver_names_set) ==
    connected \ {fn \in get_receiver_fns(connected) :
                    name_from_fn(fn) \notin receiver_names_set}

InitPublish ==
    /\ RetirementState = {}
    /\ UserRetirementStatus = {}
    /\ result = [op |-> "none", err |-> OK]
    /\ callers = [c \in Callers |-> Idle]
    /\ options \in Options
    /\ receivers = ReceiverFns
    /\ pc = "start"
    /\ course_keys = <<>>
    /\ sent = <<>>

\* Lines 95-118: the listing mode and the choice of receivers.
SelectReceivers ==
    /\ pc = "start"
    /\ LET all_receiver_names == get_receiver_names(receivers)
       IN  IF options.show_receivers
           THEN /\ pc' = "returned"
                /\ UNCHANGED receivers
           ELSE IF options.receivers # None
           THEN LET receiver_names == options.receivers
                    unknown_receiver_names ==
                        Range(receiver_names) \ all_receiver_names
                    receiver_names_set == Range(receiver_names)
                IN  IF unknown_receiver_names # {}
                    THEN /\ pc' = "fatal"
                         /\ UNCHANGED receivers
                    ELSE /\ receivers' = disconnect_others(receivers, receiver_names_set)
                         /\ pc' = "courses"
           ELSE /\ pc' = "courses"
                /\ UNCHANGED receivers
    /\ UNCHANGED <<options, course_keys, sent, retirementVars, callers>>

\* Lines 120-134: the choice of courses.
SelectCourses ==
    /\ pc = "courses"
    /\ IF options.courses # None
       THEN LET courses == options.courses
            IN  IF \E i \in DOMAIN courses : from_string(courses[i]).err = InvalidKeyError
                THEN /\ pc' = "fatal"
                     /\ UNCHANGED course_keys
                ELSE /\ course_keys' =
                          [i \in DOMAIN courses |-> from_string(courses[i]).key]
                     /\ pc' = "emit"
       ELSE /\ course_keys' = ModulestoreCourses
            /\ pc' = IF ModulestoreCourses = <<>> THEN "returned" ELSE "emit"
    /\ UNCHANGED <<options, receivers, sent, retirementVars, callers>>

\* Lines 138-142: one iteration of the emission loop.
Emit ==
    /\ pc = "emit"
    /\ LET course_key == course_keys[Len(sent) + 1]
       IN  sent' = Append(sent, [course_key |-> course_key,
                                 to |-> receivers,
                                 slept |-> IF options.delay # 0
                                           THEN options.delay ELSE 0])
    /\ pc' = IF Len(sent') = Len(course_keys) THEN "returned" ELSE "emit"
    /\ UNCHANGED <<options, receivers, course_keys, retirementVars, callers>>

NextPublish ==
    \/ SelectReceivers
    \/ SelectCourses
    \/ Emit

SpecPublish == InitPublish /\ [][NextPublish]_vars

(***************************************************************************)
(* Vocabulary of the properties.                                           *)
(***************************************************************************)
RequiredKeySet == {"username", "new_state", "response"}

WellFormed(update) == DOMAIN update = RequiredKeySet

InRegistry(name) == \E r \in RetirementState : r.state_name = name

executionOrder(name) == get(RetirementState, name).state_execution_order

isDeadEnd(name) == get(RetirementState, name).is_dead_end_state

\* The instance and outcome of update_state called on the row of user u.
Called(u, update) == update_state(RetirementState, RowOf(u), update)

UpdateSucceeded == result.op = "update_state" /\ result.err = OK

(***************************************************************************)
(* C1: across every successful update_state step the execution order of    *)
(* the updated record's current_state strictly increases; it never stays   *)
(* equal and never decreases.                                              *)
(***************************************************************************)
C1_StrictlyForward ==
    [][(result'.op = "update_state" /\ result'.err = OK) =>
         \A u \in Users :
            (HasRow(u) /\ Row(UserRetirementStatus', u) # RowOf(u)) =>
               executionOrder(Row(UserRetirementStatus', u).current_state)
                  > executionOrder(RowOf(u).current_state)]_vars

\* A record that has made two successful transitions in a row.
C1_Witness ==
    /\ UpdateSucceeded
    /\ \E r \in UserRetirementStatus : Len(r.responses) >= 3

(***************************************************************************)
(* C2: once a record's current state is flagged dead-end, every            *)
(* well-formed update_state call on it fails with TerminalStateError and   *)
(* leaves the record as it is, whatever the target.                        *)
(***************************************************************************)
C2_DeadEndIsTerminal ==
    [][\A u \in Users :
          (HasRow(u) /\ isDeadEnd(RowOf(u).current_state)) =>
             \A update \in Requests :
                (WellFormed(update) /\ UpdateState(u, update)) =>
                    /\ result'.err = TerminalStateError
                    /\ UserRetirementStatus' = UserRetirementStatus]_vars

(***************************************************************************)
(* C3: for a record whose current state is not dead-end, a well-formed     *)
(* update_state whose target is not in the registry, or whose execution    *)
(* order is less than or equal to the current state's (the current state   *)
(* itself included), fails with InvalidTransitionError.                    *)
(***************************************************************************)
C3_NonForwardRejected ==
    \A u \in Users :
        (HasRow(u) /\ ~isDeadEnd(RowOf(u).current_state)) =>
            \A update \in Requests :
                (/\ WellFormed(update)
                 /\ \/ ~InRegistry(update["new_state"])
                    \/ executionOrder(update["new_state"])
                          <= executionOrder(RowOf(u).current_state))
                => Called(u, update).err = InvalidTransitionError

\* A rejected transition, with every record in a state that is not dead-end.
C3_Witness ==
    /\ result = [op |-> "update_state", err |-> InvalidTransitionError]
    /\ UserRetirementStatus # {}
    /\ \A r \in UserRetirementStatus : ~isDeadEnd(r.current_state)

(***************************************************************************)
(* C4: an update_state call that fails leaves the instance and the table   *)
(* exactly as they were: nothing is assigned and nothing is saved.         *)
(***************************************************************************)
C4_FailureChangesNothing ==
    \A u \in Users :
        HasRow(u) =>
            \A update \in Requests :
                Called(u, update).err # OK =>
                    /\ Called(u, update).self = RowOf(u)
                    /\ ~Called(u, update).saved
                    /\ UpdateStateOutcome(u, update).records = UserRetirementStatus

\* A malformed request was rejected for a record that had already moved on.
C4_Witness ==
    /\ result = [op |-> "update_state", err |-> MissingKeyError]
    /\ \E r \in UserRetirementStatus : r.last_state # r.current_state

(***************************************************************************)
(* C5: update_state rejects with MalformedRequestError every request whose *)
(* key set is not exactly {username, new_state, response}, a key missing   *)
(* or a key too many, whatever the record's state and the target.          *)
(***************************************************************************)
C5_StrictSchema ==
    \A u \in Users :
        HasRow(u) =>
            \A update \in Requests :
                /\ (RequiredKeySet \ DOMAIN update # {}) =>
                      Called(u, update).err \in MalformedRequestError
                /\ (DOMAIN update \ RequiredKeySet # {}) =>
                      Called(u, update).err \in MalformedRequestError
                /\ Called(u, update).err \notin MalformedRequestError =>
                      WellFormed(update)

\* A request with all required keys and an extra one was rejected.
C5_Witness ==
    /\ result = [op |-> "update_state", err |-> UnknownKeyError]
    /\ UserRetirementStatus # {}

(***************************************************************************)
(* C6: a successful update_state sets last_state to the former             *)
(* current_state, current_state to the registry row named by new_state,    *)
(* appends one audit entry holding the old state, the new state and the    *)
(* response text, changes no other field, and saves the row.               *)
(***************************************************************************)
C6_SuccessEffect ==
    \A u \in Users :
        HasRow(u) =>
            \A update \in Requests :
                Called(u, update).err = OK =>
                    LET old == RowOf(u)
                        new == Called(u, update).self
                        n == Len(old.responses)
                    IN  /\ new.last_state = old.current_state
                        /\ InRegistry(update["new_state"])
                        /\ new.current_state = update["new_state"]
                        /\ Len(new.responses) = n + 1
                        /\ SubSeq(new.responses, 1, n) = old.responses
                        /\ new.responses[n + 1][2] = unicode(get(RetirementState, old.current_state))
                        /\ new.responses[n + 1][3] = unicode(get(RetirementState, update["new_state"]))
                        /\ new.responses[n + 1][4] = update["response"]
                        /\ [new EXCEPT !.current_state = old.current_state,
                                       !.last_state = old.last_state,
                                       !.responses = old.responses] = old
                        /\ UpdateStateOutcome(u, update).records
                              = (UserRetirementStatus \ {old}) \cup {new}

\* A first transition has just been saved.
C6_Witness ==
    /\ UpdateSucceeded
    /\ \E r \in UserRetirementStatus :
          r.last_state # r.current_state /\ Len(r.responses) = 2

(***************************************************************************)
(* C7: the legal transitions are exactly the forward edges out of states   *)
(* that are not dead-end: a well-formed update_state succeeds if and only  *)
(* if the current state is not dead-end and the target is a registry state *)
(* of strictly greater execution order (skipping states or entering a      *)
(* dead-end state included).                                               *)
(***************************************************************************)
C7_LegalTransitions ==
    [][\A u \in Users :
          HasRow(u) =>
             \A update \in Requests :
                (WellFormed(update) /\ UpdateState(u, update)) =>
                    (result'.err = OK
                        <=> (/\ ~isDeadEnd(RowOf(u).current_state)
                             /\ InRegistry(update["new_state"])
                             /\ executionOrder(update["new_state"])
                                   > executionOrder(RowOf(u).current_state)))]_vars

(***************************************************************************)
(* C8: create_retirement for a user who already has a row fails with       *)
(* DuplicateRetirementError and leaves the table, the existing row         *)
(* included, as it is, whatever state that row has reached.                *)
(***************************************************************************)
C8_DuplicateRejected ==
    \A u \in Users :
        HasRow(u) =>
            create_retirement(RetirementState, UserRetirementStatus, u)
               = [err |-> DuplicateRetirementError, records |-> UserRetirementStatus]

\* A second create_retirement was rejected with the first row already moved on.
C8_Witness ==
    /\ result = [op |-> "create_retirement", err |-> DuplicateRetirementError]
    /\ \A u \in Users : HasRow(u) /\ RowOf(u).last_state # RowOf(u).current_state

(***************************************************************************)
(* C9: create_retirement on an empty registry fails with                   *)
(* EmptyRegistryError and creates nothing; on a non-empty registry, for a  *)
(* user without a row, it adds one row whose current_state and last_state  *)
(* are the state of minimum execution order and whose log holds only the   *)
(* creation marker.                                                        *)
(***************************************************************************)
C9_Creation ==
    \A u \in Users :
        LET out == create_retirement(RetirementState, UserRetirementStatus, u)
        IN  /\ RetirementState = {} =>
                  out = [err |-> EmptyRegistryError, records |-> UserRetirementStatus]
            /\ (RetirementState # {} /\ ~HasRow(u)) =>
                  /\ out.err = OK
                  /\ \E row \in out.records :
                        /\ out.records = UserRetirementStatus \cup {row}
                        /\ row.user = u
                        /\ InRegistry(row.current_state)
                        /\ \A s \in RetirementState :
                              executionOrder(row.current_state) <= s.state_execution_order
                        /\ row.last_state = row.current_state
                        /\ Len(row.responses) = 1
                        /\ row.responses[1][2] = unicode(get(RetirementState, row.current_state))

\* A row was just created in a registry of several states whose first state
\* is not the seed's first.
C9_Witness ==
    /\ result = [op |-> "create_retirement", err |-> OK]
    /\ Cardinality(RetirementState) >= 2
    /\ \E r \in UserRetirementStatus :
          r.current_state # SeedNames[1] /\ Len(r.responses) = 1

(***************************************************************************)
(* C10: deleting a RetirementState whose required flag is set always       *)
(* fails and leaves the registry (and the rows that refer to it) as it is. *)
(***************************************************************************)
C10_RequiredProtected ==
    \A state \in RetirementState :
        state.required =>
            delete(RetirementState, UserRetirementStatus, state)
               = [err |-> ProtectedStateError, table |-> RetirementState,
                  records |-> UserRetirementStatus]

\* A delete of a required state was refused while a row referred to it.
C10_Witness ==
    /\ result.op = "delete"
    /\ result.err = ProtectedStateError
    /\ \E r \in UserRetirementStatus :
          InRegistry(r.current_state) /\ get(RetirementState, r.current_state).required

(***************************************************************************)
(* C11: with concurrent callers of update_state on one record, the         *)
(* execution order of the saved current_state never decreases from one     *)
(* committed write to the next.                                            *)
(***************************************************************************)
C11_SavedOrderNeverDecreases ==
    [][\A u \in Users :
          (HasRow(u) /\ \E r \in UserRetirementStatus' : r.user = u) =>
              executionOrder(Row(UserRetirementStatus', u).current_state)
                 >= executionOrder(RowOf(u).current_state)]_vars

(***************************************************************************)
(* C12: in every reachable state there is at most one retirement record    *)
(* per user, also when two callers of create_retirement for the same user  *)
(* both pass the exists() check before either inserts its row.             *)
(***************************************************************************)
C12_OneRecordPerUser ==
    \A u \in Users : Cardinality({r \in UserRetirementStatus : r.user = u}) <= 1

\* The second of two racing creates was refused by the unique constraint.
C12_Witness ==
    /\ result = [op |-> "create_retirement", err |-> IntegrityError]
    /\ \A c \in Callers : callers[c] = Idle
    /\ \E u \in Users : HasRow(u)

(***************************************************************************)
(* C13: in every reachable state the current_state of every record is a    *)
(* state of the registry, also after the deletion of a non-required state  *)
(* that a record occupies.                                                 *)
(***************************************************************************)
C13_CurrentStateInRegistry ==
    \A r \in UserRetirementStatus : InRegistry(r.current_state)

\* A state was deleted while at least one record occupied it.
C13_Witness ==
    /\ result.op = "delete"
    /\ result.err = OK
    /\ result.occupants >= 1
    /\ result.cascaded >= result.occupants

(***************************************************************************)
(* C14: a run of simulate_publish with --dry-run emits no course_published *)
(* signal and disconnects no receiver.                                     *)
(***************************************************************************)
C14_DryRunChangesNothing ==
    (pc # "none" /\ options.dry_run) =>
        /\ sent = <<>>
        /\ receivers = ReceiverFns

(***************************************************************************)
(* C15: the response log is append-only.  Across every step the log of a   *)
(* record before the step is a prefix of its log after the step; a         *)
(* create_retirement that makes the record starts the log with one entry;  *)
(* a successful update_state on the record adds exactly one entry, and a   *)
(* failed one, or any call on another record, adds nothing.                *)
(***************************************************************************)
C15_LogAppendOnly ==
    [][LET Grown == {u \in Users :
                        /\ HasRow(u)
                        /\ \E r \in UserRetirementStatus' : r.user = u
                        /\ Len(Row(UserRetirementStatus', u).responses)
                              = Len(RowOf(u).responses) + 1}
           Succeeded == result'.op = "update_state" /\ result'.err = OK
       IN  /\ \A u \in Users :
                /\ (~HasRow(u) /\ \E r \in UserRetirementStatus' : r.user = u) =>
                       Len(Row(UserRetirementStatus', u).responses) = 1
                /\ (HasRow(u) /\ \E r \in UserRetirementStatus' : r.user = u) =>
                       LET old == RowOf(u).responses
                           new == Row(UserRetirementStatus', u).responses
                       IN  /\ Len(new) >= Len(old)
                           /\ SubSeq(new, 1, Len(old)) = old
                           /\ Len(new) <= Len(old) + 1
           /\ Succeeded => Cardinality(Grown) = 1
           /\ ~Succeeded => Grown = {}]_vars

\* A record whose log holds the creation entry and two transition entries,
\* after a request on it was rejected.
C15_Witness ==
    /\ result.op = "update_state"
    /\ result.err # OK
    /\ \E r \in UserRetirementStatus : Len(r.responses) = 3

\* The user link and the fields written only at creation.
IdentityFields(r) ==
    <<r.user, r.original_username, r.original_email, r.original_name,
      r.retired_username, r.retired_email>>

(***************************************************************************)
(* C16: update_state, successful or not, leaves the user link and the five *)
(* identity fields (original_username, original_email, original_name,      *)
(* retired_username, retired_email) of the record as they are; in every    *)
(* reachable state they hold the values given by create_retirement.        *)
(***************************************************************************)
C16_IdentityFieldsKept ==
    /\ \A r \in UserRetirementStatus :
          \A pending \in RetirementState :
             IdentityFields(r) = IdentityFields(NewRow(r.user, pending))
    /\ \A u \in Users :
          HasRow(u) =>
             \A update \in Requests :
                /\ IdentityFields(Called(u, update).self) = IdentityFields(RowOf(u))
                /\ \A r \in UpdateStateOutcome(u, update).records :
                      r.user = u => IdentityFields(r) = IdentityFields(RowOf(u))

\* A request was rejected for a record that had made two transitions.
C16_Witness ==
    /\ result = [op |-> "update_state", err |-> InvalidTransitionError]
    /\ \E r \in UserRetirementStatus :
          /\ Len(r.responses) = 3
          /\ r.original_username = username(r.user)

\* The rows of one user in a table.
RowsOf(records, u) == {r \in records : r.user = u}

(***************************************************************************)
(* C17: operations on different records are independent.  In every        *)
(* reachable state, create_retirement and update_state for a user give the *)
(* same outcome and the same record as on a table that holds that user's   *)
(* record alone, and leave the records of all other users as they are; and *)
(* every create_retirement or update_state step leaves the registry        *)
(* unchanged and changes the record of at most one user.                   *)
(***************************************************************************)
C17_RecordsIndependent ==
    /\ [](\A u \in Users :
            LET alone == RowsOf(UserRetirementStatus, u)
                created == create_retirement(RetirementState, UserRetirementStatus, u)
                createdAlone == create_retirement(RetirementState, alone, u)
            IN  /\ created.err = createdAlone.err
                /\ RowsOf(created.records, u) = createdAlone.records
                /\ \A v \in Users \ {u} :
                      RowsOf(created.records, v) = RowsOf(UserRetirementStatus, v)
                /\ HasRow(u) =>
                      \A update \in Requests :
                         LET out == Called(u, update)
                             after == UpdateStateOutcome(u, update).records
                         IN  /\ RowsOf(after, u) =
                                   (IF out.saved THEN save(alone, out.self) ELSE alone)
                             /\ \A v \in Users \ {u} :
                                   RowsOf(after, v) = RowsOf(UserRetirementStatus, v))
    /\ [][result'.op \in {"create_retirement", "update_state"} =>
             /\ RetirementState' = RetirementState
             /\ Cardinality({u \in Users :
                    RowsOf(UserRetirementStatus', u) # RowsOf(UserRetirementStatus, u)})
                   <= 1]_vars

\* Two users have records in different states, and the last call moved one.
C17_Witness ==
    /\ UpdateSucceeded
    /\ \E r1, r2 \in UserRetirementStatus :
          /\ r1.user # r2.user
          /\ r1.current_state # r2.current_state
          /\ Len(r1.responses) >= 2
          /\ Len(r2.responses) >= 2

\* The receivers named by --receivers, and the course keys selected by
\* --courses (all courses of the modulestore when the option is absent).
NamedReceivers ==
    {fn \in ReceiverFns : name_from_fn(fn) \in Range(options.receivers)}

SelectedKeys ==
    IF options.courses # None
    THEN [i \in DOMAIN options.courses |-> from_string(options.courses[i]).key]
    ELSE ModulestoreCourses

EmittedKeys == [i \in DOMAIN sent |-> sent[i].course_key]

(***************************************************************************)
(* C18: in a run with --receivers naming only known receivers, the         *)
(* receivers not named are disconnected before the first emission and      *)
(* every emission reaches exactly the named receivers; in a run without    *)
(* --receivers every emission reaches every connected receiver; and the    *)
(* run emits one signal per entry of the selected course list, in order    *)
(* (the keys parsed from --courses, or all courses of the modulestore).     *)
(***************************************************************************)
C18_SelectedReceiversAndCourses ==
    pc \in {"emit", "returned"} /\ ~options.show_receivers =>
        /\ options.receivers # None =>
              /\ Range(options.receivers) \subseteq get_receiver_names(ReceiverFns)
              /\ receivers = NamedReceivers
              /\ \A i \in DOMAIN sent :
                    /\ sent[i].to = NamedReceivers
                    /\ get_receiver_names(sent[i].to) = Range(options.receivers)
        /\ options.receivers = None =>
              /\ receivers = ReceiverFns
              /\ \A i \in DOMAIN sent : sent[i].to = ReceiverFns
        /\ Len(sent) <= Len(SelectedKeys)
        /\ EmittedKeys = SubSeq(SelectedKeys, 1, Len(sent))
        /\ pc = "returned" => EmittedKeys = SelectedKeys

\* A finished run that named one receiver and two courses.
C18_Witness ==
    /\ pc = "returned"
    /\ options.receivers # None
    /\ options.courses # None
    /\ Len(sent) = 2
    /\ sent[1].course_key # sent[2].course_key
    /\ Cardinality(receivers) = 1

(***************************************************************************)
(* C19: a run of simulate_publish that aborts, on an unknown --receivers   *)
(* name or on a --courses id that is not a parseable course key, has       *)
(* emitted no signal and has left the set of connected receivers as it was *)
(* before the run.                                                         *)
(***************************************************************************)
C19_AbortChangesNothing ==
    pc = "fatal" =>
        /\ sent = <<>>
        /\ receivers = ReceiverFns

\* The number of registry states below a state, and the states of highest
\* execution order.
Rank(name) ==
    Cardinality({s \in RetirementState :
                    s.state_execution_order < executionOrder(name)})

AtMaxOrder(name) ==
    \A s \in RetirementState : s.state_execution_order <= executionOrder(name)

AllRejected(u) == \A update \in Requests : Called(u, update).err # OK

(***************************************************************************)
(* C20: with a fixed registry of N states, a record has made at most N-1   *)
(* successful transitions (never more than the number of states below its  *)
(* current state); a record at the state of maximum execution order has    *)
(* every update_state request rejected; a record for which every request   *)
(* is rejected is at the maximum-order state or in a dead-end state; and   *)
(* in every run the successful transitions come to an end.                 *)
(***************************************************************************)
C20_TransitionsBounded ==
    /\ [](\A r \in UserRetirementStatus :
            /\ Len(r.responses) - 1 <= Rank(r.current_state)
            /\ Rank(r.current_state) <= Cardinality(RetirementState) - 1
            /\ AtMaxOrder(r.current_state) => AllRejected(r.user)
            /\ AllRejected(r.user) =>
                  (AtMaxOrder(r.current_state) \/ isDeadEnd(r.current_state)))
    /\ <>[][~(/\ result'.op = "update_state"
              /\ result'.err = OK
              /\ UserRetirementStatus' # UserRetirementStatus)]_vars

\* A record that went through every state of a registry of four states and
\* then had a request rejected.
C20_Witness ==
    /\ result.op = "update_state"
    /\ result.err # OK
    /\ Cardinality(RetirementState) = 4
    /\ \E r \in UserRetirementStatus :
          /\ Len(r.responses) = 4
          /\ AtMaxOrder(r.current_state)

(***************************************************************************)
(* C21: in every reachable state, with one caller at a time, the execution *)
(* order of a record's last_state is at most that of its current_state,    *)
(* and the two are equal exactly when the record has made no successful    *)
(* transition since it was created (its log holds the creation entry       *)
(* only); every successful update_state leaves last_state strictly below   *)
(* current_state.                                                          *)
(***************************************************************************)
C21_LastNotAfterCurrent ==
    /\ \A r \in UserRetirementStatus :
          /\ InRegistry(r.last_state)
          /\ InRegistry(r.current_state)
          /\ executionOrder(r.last_state) <= executionOrder(r.current_state)
          /\ (executionOrder(r.last_state) = executionOrder(r.current_state))
                <=> (Len(r.responses) = 1)
          /\ (r.last_state = r.current_state) <=> (Len(r.responses) = 1)
    /\ \A u \in Users :
          HasRow(u) =>
             \A update \in Requests :
                Called(u, update).err = OK =>
                   executionOrder(Called(u, update).self.last_state)
                      < executionOrder(Called(u, update).self.current_state)

\* One record has made two transitions and another none.
C21_Witness ==
    \E r1, r2 \in UserRetirementStatus :
        /\ Len(r1.responses) = 3
        /\ executionOrder(r1.last_state) < executionOrder(r1.current_state)
        /\ r1.last_state # get_state_names_list(RetirementState)[1]
        /\ Len(r2.responses) = 1
        /\ r2.last_state = r2.current_state

====
